---- MODULE Spec2Model ----
(***************************************************************************)
(* Model of notion_integration.py: the note-to-blocks formatter            *)
(* (_format_notes_as_blocks), quick_note's title inference and the         *)
(* POST/PATCH sequence of create_page_with_notes.                          *)
(*                                                                         *)
(* A Python str is a sequence of one-character strings.  A block is the    *)
(* record [type, text]: type is the block's "type" key and text the        *)
(* "content" of its single rich_text element.                              *)
(***************************************************************************)
EXTENDS Integers, Sequences, FiniteSets, TLC

VARIABLES
    clock,      \* what datetime.now() returns: [hour, minute, second] of a fixed day
    pc,         \* position of the running call
    notes,      \* the notes argument of the running call
    title,      \* the title argument of create_page_with_notes
    tags,       \* the tags argument of create_page_with_notes, as given
    blocks,     \* the blocks returned by the last _format_notes_as_blocks call
    origin,     \* origin[k]: index of the paragraph blocks[k] came from (0: timestamp)
    calledAt,   \* the clock reading of the last formatter call
    calls,      \* the block lists returned by the formatter calls so far
    sent,       \* the HTTP requests sent so far, in order
    replies,    \* the status codes received so far, in order
    result,     \* the Dict returned by create_page_with_notes, or NoResult
    cmd,        \* the entry point of the behaviour: "format", "quick" or "create"
    content,    \* the content argument of quick_note
    startedAt,  \* the clock reading when the entry point was called
    ticks       \* how often the clock has advanced

vars == <<clock, pc, notes, title, tags, blocks, origin, calledAt, calls,
          sent, replies, result, cmd, content, startedAt, ticks>>

-----------------------------------------------------------------------------
(* Bounds *)

\* longest note text the formatter specification draws
MaxLen == 5
\* how often the clock advances in one behaviour
MaxTicks == 1
\* how many formatter calls one behaviour of the formatter specification makes
MaxCalls == 2
\* longest first line quick_note is given is TitleLimit + LineSlack
LineSlack == 2

(* Program constants *)

\* len(lines[0]) < 100
TitleLimit == 100
\* lines[0][:50]
TitleCut == 50
\* response.status_code != 200
StatusOK == 200
\* min(level, 3)
MaxHeading == 3

-----------------------------------------------------------------------------
(* Python str operations *)

NL == "\n"

\* the characters str.strip() removes, among those the model draws
Whitespace == {" ", NL, "\t", "\r"}

MinOf(S) == CHOOSE x \in S : \A y \in S : x <= y
MaxOf(S) == CHOOSE x \in S : \A y \in S : x >= y

\* s.lstrip(chars)
LStripSet(s, cs) ==
    LET keep == {i \in 1..Len(s) : s[i] \notin cs}
    IN  IF keep = {} THEN <<>> ELSE SubSeq(s, MinOf(keep), Len(s))

\* s.rstrip(chars)
RStripSet(s, cs) ==
    LET keep == {i \in 1..Len(s) : s[i] \notin cs}
    IN  IF keep = {} THEN <<>> ELSE SubSeq(s, 1, MaxOf(keep))

\* s.strip(chars)
StripSet(s, cs) == RStripSet(LStripSet(s, cs), cs)

\* s.strip()
Strip(s) == StripSet(s, Whitespace)

\* s.startswith(p)
StartsWith(s, p) == Len(s) >= Len(p) /\ SubSeq(s, 1, Len(p)) = p

\* s[:n]
Prefix(s, n) == SubSeq(s, 1, IF Len(s) < n THEN Len(s) ELSE n)

\* s[n:]
Drop(s, n) == SubSeq(s, n + 1, Len(s))

\* s.split(sep): cut at every occurrence of sep, left to right; never empty
RECURSIVE Split(_, _)
Split(s, sep) ==
    LET hits == {i \in 1..(Len(s) - Len(sep) + 1) : SubSeq(s, i, i + Len(sep) - 1) = sep}
    IN  IF hits = {} THEN <<s>>
        ELSE LET i == MinOf(hits)
             IN  <<SubSeq(s, 1, i - 1)>> \o Split(Drop(s, i + Len(sep) - 1), sep)

\* sep.join(parts)
RECURSIVE Join(_, _)
Join(parts, sep) ==
    IF parts = <<>> THEN <<>>
    ELSE IF Len(parts) = 1 THEN parts[1]
    ELSE parts[1] \o sep \o Join(Tail(parts), sep)

\* str(n).zfill(2) for 0 <= n <= 99, as strftime's %H and %M print it
Digits == <<"0", "1", "2", "3", "4", "5", "6", "7", "8", "9">>
TwoDigits(n) == <<Digits[(n \div 10) + 1], Digits[(n % 10) + 1]>>

\* now.strftime('%Y-%m-%d %H:%M'): the seconds are not printed
Strftime(now) ==
    <<"2", "0", "2", "5", "-", "0", "7", "-", "0", "1", " ">>
        \o TwoDigits(now.hour) \o <<":">> \o TwoDigits(now.minute)

-----------------------------------------------------------------------------
(* _format_notes_as_blocks *)

Block(type, text) == [type |-> type, text |-> text]

\* f"heading_{min(level, 3)}"
HeadingType(level) ==
    LET n == IF level < MaxHeading THEN level ELSE MaxHeading
    IN  <<"heading_0", "heading_1", "heading_2", "heading_3">>[n + 1]

\* "Created by Claude Code - "
TimestampPrefix == <<"C", "r", "e", "a", "t", "e", "d", " ", "b", "y", " ",
                     "C", "l", "a", "u", "d", "e", " ", "C", "o", "d", "e",
                     " ", "-", " ">>

\* the block appended before the paragraphs are looked at
TimestampBlock(now) == Block("heading_3", TimestampPrefix \o Strftime(now))

\* IsBulletLine with the prefix looked for in the line as it stands
IsBulletLineRaw(line) ==
    StartsWith(line, <<"-", " ">>) \/ StartsWith(line, <<"*", " ">>)

\* line.strip().startswith(('- ', '* '))
IsBulletLine(line) ==
    StartsWith(Strip(line), <<"-", " ">>) \/ StartsWith(Strip(line), <<"*", " ">>)

\* the loop over the lines of a list paragraph
RECURSIVE BulletBlocks(_)
BulletBlocks(lines) ==
    IF lines = <<>> THEN <<>>
    ELSE (IF IsBulletLine(Head(lines))
          THEN <<Block("bulleted_list_item", Drop(Strip(Head(lines)), 2))>>
          ELSE <<>>) \o BulletBlocks(Tail(lines))

\* the heading branch: level and text are taken from para, not from para.strip()
HeadingBlock(para) ==
    LET level == Len(para) - Len(LStripSet(para, {"#"}))
    IN  Block(HeadingType(level), Strip(StripSet(para, {"#"})))

\* ParaBlocks without the test that skips a blank paragraph
ParaBlocksNoSkip(para) ==
    LET t == Strip(para)
    IN  IF StartsWith(t, <<"-", " ">>) \/ StartsWith(t, <<"*", " ">>)
        THEN BulletBlocks(Split(t, <<NL>>))
        ELSE IF StartsWith(t, <<"#">>) THEN <<HeadingBlock(para)>>
        ELSE <<Block("paragraph", t)>>

\* the body of the loop over the paragraphs: the blocks one paragraph appends
ParaBlocks(para) ==
    LET t == Strip(para)
    IN  IF t = <<>> THEN <<>>
        ELSE IF StartsWith(t, <<"-", " ">>) \/ StartsWith(t, <<"*", " ">>)
             THEN BulletBlocks(Split(t, <<NL>>))
        ELSE IF StartsWith(t, <<"#">>) THEN <<HeadingBlock(para)>>
        ELSE <<Block("paragraph", t)>>

\* paragraphs = notes.strip().split('\n\n')
Paragraphs(text) == Split(Strip(text), <<NL, NL>>)

\* blocks.append(...): each block is kept with the index of its paragraph
Append2(acc, bs, i) == acc \o [k \in 1..Len(bs) |-> [block |-> bs[k], para |-> i]]

\* for para in paragraphs: ...
RECURSIVE FormatLoop(_, _, _)
FormatLoop(paras, i, acc) ==
    IF i > Len(paras) THEN acc
    ELSE FormatLoop(paras, i + 1, Append2(acc, ParaBlocks(paras[i]), i))

\* FormatTagged with the timestamp heading appended after the paragraphs
FormatTaggedLate(text, now) ==
    FormatLoop(Paragraphs(text), 1, <<>>) \o <<[block |-> TimestampBlock(now), para |-> 0]>>

\* the whole function; now is the value datetime.now() returns inside it
FormatTagged(text, now) ==
    FormatLoop(Paragraphs(text), 1, <<[block |-> TimestampBlock(now), para |-> 0]>>)

FormatNotes(text, now) ==
    LET r == FormatTagged(text, now) IN [k \in 1..Len(r) |-> r[k].block]

FormatOrigin(text, now) ==
    LET r == FormatTagged(text, now) IN [k \in 1..Len(r) |-> r[k].para]

-----------------------------------------------------------------------------
(* The clock *)

\* the reading a behaviour starts from
StartClock == [hour |-> 9, minute |-> 59, second |-> 30]

\* the clock half a minute later (same day)
HalfMinuteLater(c) ==
    LET s == c.second + 30
        m == c.minute + (s \div 60)
        h == c.hour + (m \div 60)
    IN  [hour |-> h % 24, minute |-> m % 60, second |-> s % 60]

\* time passes between any two steps of the program
Tick ==
    /\ ticks < MaxTicks
    /\ clock' = HalfMinuteLater(clock)
    /\ ticks' = ticks + 1
    /\ UNCHANGED <<pc, notes, title, tags, blocks, origin, calledAt, calls,
                   sent, replies, result, cmd, content, startedAt>>

-----------------------------------------------------------------------------
(* The formatter called on its own, any number of times on the same text *)

NoResult == [kind |-> "none"]

Alphabet == {"#", "-", "*", " ", NL, "a"}

\* every str of at most n characters over the alphabet
Strings(n) == UNION {[1..k -> Alphabet] : k \in 0..n}

\* longer texts: headings, lists with indented and unmarked lines, paragraphs
ExtraNotes ==
    {<<"#", " ", "T", "i", "t", "l", "e">>,
     <<"#", "#", "#", " ", "S", "u", "b">>,
     <<"#", "#", "#", "#", "#", " ", "S", "u", "b", " ", "#", "#">>,
     <<"-", " ", "a", NL, "-", " ", "b">>,
     <<"-", " ", "a", NL, " ", " ", "-", " ", "b", " ", NL, "c", NL, "*", " ", "d">>,
     <<"o", "n", "e", NL, NL, "t", "w", "o">>,
     <<"a", NL, NL, " ", "#", "#", " ", "T", NL, NL, "*", " ", "x", NL, NL, NL, "b">>}

\* the note texts the formatter is called on
FormatInputs == Strings(MaxLen) \cup ExtraNotes

InitFormat ==
    /\ clock = StartClock
    /\ ticks = 0
    /\ pc = "format"
    /\ cmd = "format"
    /\ notes \in FormatInputs
    /\ content = <<>>
    /\ title = <<>>
    /\ tags = <<>>
    /\ blocks = <<>>
    /\ origin = <<>>
    /\ calledAt = clock
    /\ startedAt = clock
    /\ calls = <<>>
    /\ sent = <<>>
    /\ replies = <<>>
    /\ result = NoResult

\* blocks = self._format_notes_as_blocks(notes)
FormatCall ==
    /\ pc = "format"
    /\ Len(calls) < MaxCalls
    /\ blocks' = FormatNotes(notes, clock)
    /\ origin' = FormatOrigin(notes, clock)
    /\ calledAt' = clock
    /\ calls' = Append(calls, blocks')
    /\ UNCHANGED <<clock, pc, notes, title, tags, sent, replies, result, cmd,
                   content, startedAt, ticks>>

NextFormat == FormatCall \/ Tick

SpecFormat == InitFormat /\ [][NextFormat]_vars

-----------------------------------------------------------------------------
(* quick_note and create_page_with_notes *)

Rep(c, n) == [i \in 1..n |-> c]

QuickNotePrefix == <<"Q", "u", "i", "c", "k", " ", "N", "o", "t", "e", " ", "-", " ">>

\* QuickTitle with the first line compared by <= instead of <
QuickTitleInclusive(text, now) ==
    LET lines == Split(Strip(text), <<NL>>)
    IN  IF lines # <<>> /\ Len(lines[1]) <= TitleLimit
        THEN (IF Len(lines[1]) > TitleCut
              THEN Prefix(lines[1], TitleCut) \o <<".", ".", ".">>
              ELSE lines[1])
        ELSE QuickNotePrefix \o Strftime(now)

\* the title quick_note makes of its content: "Generate title from first line or date"
QuickTitle(text, now) ==
    LET lines == Split(Strip(text), <<NL>>)
    IN  IF lines # <<>> /\ Len(lines[1]) < TitleLimit
        THEN (IF Len(lines[1]) > TitleCut
              THEN Prefix(lines[1], TitleCut) \o <<".", ".", ".">>
              ELSE lines[1])
        ELSE QuickNotePrefix \o Strftime(now)

\* the tags quick_note passes
QuickTags == <<"DAILY", "PRODUCTIVITY">>

\* self.config["default_tags"], read from notion_config.json
DefaultTags == <<"CLAUDE">>

\* if not tags: tags = self.config["default_tags"]
EffectiveTags(given) == IF given = <<>> THEN DefaultTags ELSE given

\* the request requests.post sends: the page's title and tags
PostRequest(t, given) ==
    [method |-> "POST", path |-> "pages", title |-> t, tags |-> EffectiveTags(given)]

\* the request requests.patch sends: the children of the page created
PatchRequest(pageId, children) ==
    [method |-> "PATCH", path |-> pageId, children |-> children]

\* the contents quick_note is given: a first line of n characters, with and
\* without leading whitespace and following lines
QuickInputs ==
    {pre \o Rep("a", n) \o suf :
        n \in 0..(TitleLimit + LineSlack),
        pre \in {<<>>, <<" ">>},
        suf \in {<<>>, <<NL, "#", "b">>, <<" ", NL, NL, "-", " ", "b">>}}

\* the arguments of the CLI's create command
CreateTitles == {<<"T">>, <<>>}
CreateNotes == {<<"a">>, <<"#", " ", "a", NL, NL, "b">>}
CreateTags == {<<>>, <<"WORK">>}

\* the status codes and pages the API answers with
Statuses == {StatusOK, 201, 400, 500}
PageIds == {"page-1", "page-2"}

Init ==
    /\ clock = StartClock
    /\ ticks = 0
    /\ pc = "main"
    /\ cmd = "none"
    /\ notes = <<>>
    /\ content = <<>>
    /\ title = <<>>
    /\ tags = <<>>
    /\ blocks = <<>>
    /\ origin = <<>>
    /\ calledAt = clock
    /\ startedAt = clock
    /\ calls = <<>>
    /\ sent = <<>>
    /\ replies = <<>>
    /\ result = NoResult

\* create_page_with_notes up to its first request
BeginCreate(t, n, given) ==
    /\ title' = t
    /\ notes' = n
    /\ tags' = given
    /\ sent' = Append(sent, PostRequest(t, given))
    /\ pc' = "await_post"
    /\ startedAt' = clock
    /\ UNCHANGED <<clock, blocks, origin, calledAt, calls, replies, result, ticks>>

\* notion.quick_note(notes)
QuickNote ==
    /\ pc = "main"
    /\ \E c \in QuickInputs :
        /\ cmd' = "quick"
        /\ content' = c
        /\ BeginCreate(QuickTitle(c, clock), c, QuickTags)

\* notion.create_page_with_notes(title, notes) and calls that pass tags
CreatePage ==
    /\ pc = "main"
    /\ \E t \in CreateTitles, n \in CreateNotes, given \in CreateTags :
        /\ cmd' = "create"
        /\ content' = <<>>
        /\ BeginCreate(t, n, given)

\* PostReply without the test of the status code
PostReplyUnchecked ==
    /\ pc = "await_post"
    /\ \E st \in Statuses, id \in PageIds :
        /\ replies' = Append(replies, [status |-> st, id |-> id])
        /\ blocks' = FormatNotes(notes, clock)
        /\ origin' = FormatOrigin(notes, clock)
        /\ calledAt' = clock
        /\ calls' = Append(calls, blocks')
        /\ sent' = Append(sent, PatchRequest(id, blocks'))
        /\ pc' = "await_patch"
        /\ UNCHANGED result
    /\ UNCHANGED <<clock, notes, title, tags, cmd, content, startedAt, ticks>>

\* requests.post returns: an error result, or the blocks are made and sent
PostReply ==
    /\ pc = "await_post"
    /\ \E st \in Statuses, id \in PageIds :
        /\ replies' = Append(replies, [status |-> st, id |-> id])
        /\ IF st # StatusOK
           THEN /\ result' = [kind |-> "error", error |-> "Failed to create page"]
                /\ pc' = "returned"
                /\ UNCHANGED <<blocks, origin, calledAt, calls, sent>>
           ELSE /\ blocks' = FormatNotes(notes, clock)
                /\ origin' = FormatOrigin(notes, clock)
                /\ calledAt' = clock
                /\ calls' = Append(calls, blocks')
                /\ sent' = Append(sent, PatchRequest(id, blocks'))
                /\ pc' = "await_patch"
                /\ UNCHANGED result
    /\ UNCHANGED <<clock, notes, title, tags, cmd, content, startedAt, ticks>>

\* requests.patch returns: an error result or the success result
PatchReply ==
    /\ pc = "await_patch"
    /\ \E st \in Statuses :
        /\ replies' = Append(replies, [status |-> st, id |-> replies[1].id])
        /\ result' = IF st # StatusOK
                     THEN [kind |-> "error", error |-> "Failed to add notes"]
                     ELSE [kind |-> "ok", success |-> TRUE,
                           page_id |-> replies[1].id, title |-> title]
    /\ pc' = "returned"
    /\ UNCHANGED <<clock, notes, title, tags, blocks, origin, calledAt, calls,
                   sent, cmd, content, startedAt, ticks>>

\* requests.post or requests.patch raises (no connection): the call returns nothing
RequestRaises ==
    /\ pc \in {"await_post", "await_patch"}
    /\ pc' = "raised"
    /\ UNCHANGED <<clock, notes, title, tags, blocks, origin, calledAt, calls,
                   sent, replies, result, cmd, content, startedAt, ticks>>

Next == QuickNote \/ CreatePage \/ PostReply \/ PatchReply \/ RequestRaises \/ Tick

Spec == Init /\ [][Next]_vars

-----------------------------------------------------------------------------
(* What the claims speak of, read off the state after a formatter call *)

Formatted == calls # <<>>

\* the paragraphs of the text formatted
Paras == Paragraphs(notes)

\* the blocks of the last call that came from paragraph i, in output order
RECURSIVE PickFrom(_, _)
PickFrom(k, i) ==
    IF k > Len(blocks) THEN <<>>
    ELSE (IF origin[k] = i THEN <<blocks[k]>> ELSE <<>>) \o PickFrom(k + 1, i)

GroupOf(i) == PickFrom(1, i)

\* a paragraph of each kind, decided on its trimmed form
IsBlankPara(p) == Strip(p) = <<>>
IsListPara(p) == StartsWith(Strip(p), <<"-", " ">>) \/ StartsWith(Strip(p), <<"*", " ">>)
IsHeadingPara(p) == ~IsListPara(p) /\ StartsWith(Strip(p), <<"#">>)

\* the number of '#' a str starts with
RECURSIVE LeadingHashes(_)
LeadingHashes(s) ==
    IF s # <<>> /\ Head(s) = "#" THEN 1 + LeadingHashes(Tail(s)) ELSE 0

\* Heading(level) of the spec as a block type
LevelOf(type) ==
    CASE type = "heading_1" -> 1
      [] type = "heading_2" -> 2
      [] type = "heading_3" -> 3
      [] OTHER -> 0

\* C1: every paragraph that is non-empty after trimming contributes at least
\* one block to the output and every blank paragraph contributes none.
C1_EveryNonBlankParagraphEmits ==
    Formatted =>
        \A i \in 1..Len(Paras) :
            IF IsBlankPara(Paras[i]) THEN GroupOf(i) = <<>> ELSE Len(GroupOf(i)) >= 1

\* C2: a heading paragraph yields exactly one heading whose level is the
\* number of leading '#' of the trimmed paragraph clamped to 1..3, so every
\* heading emitted has level 1, 2 or 3.
C2_HeadingLevelClamped ==
    Formatted =>
        \A i \in 1..Len(Paras) :
            IsHeadingPara(Paras[i]) =>
                LET n == LeadingHashes(Strip(Paras[i]))
                    want == IF n > 3 THEN 3 ELSE IF n < 1 THEN 1 ELSE n
                IN  /\ Len(GroupOf(i)) = 1
                    /\ LevelOf(GroupOf(i)[1].type) = want
                    /\ LevelOf(GroupOf(i)[1].type) \in 1..3

DigitValue(c) == (CHOOSE d \in 1..10 : Digits[d] = c) - 1
IsDigit(c) == \E d \in 1..10 : Digits[d] = c

\* s is a YYYY-MM-DD HH:MM stamp that shows hour h and minute m
IsStampOf(s, h, m) ==
    /\ Len(s) = 16
    /\ \A k \in {1, 2, 3, 4, 6, 7, 9, 10, 12, 13, 15, 16} : IsDigit(s[k])
    /\ s[5] = "-" /\ s[8] = "-" /\ s[11] = " " /\ s[14] = ":"
    /\ 10 * DigitValue(s[12]) + DigitValue(s[13]) = h
    /\ 10 * DigitValue(s[15]) + DigitValue(s[16]) = m

\* C3: the first block is always a level-3 heading whose text ends with the
\* time of the call as YYYY-MM-DD HH:MM, and it is the only block that does
\* not come from the note text.
C3_FirstBlockIsTimestamp ==
    Formatted =>
        /\ Len(blocks) >= 1
        /\ blocks[1].type = "heading_3"
        /\ origin[1] = 0
        /\ \A k \in 2..Len(blocks) : origin[k] \in 1..Len(Paras)
        /\ Len(blocks[1].text) > 16
        /\ IsStampOf(Drop(blocks[1].text, Len(blocks[1].text) - 16),
                     calledAt.hour, calledAt.minute)

\* the formatter ran on a text that gave blocks of its own after the first
C3_Witness == Formatted /\ Len(blocks) > 2 /\ calledAt # StartClock

StartsWithBullet(line) == StartsWith(line, <<"-", " ">>) \/ StartsWith(line, <<"*", " ">>)
TrimmedStartsWithBullet(line) == StartsWithBullet(Strip(line))

BulletOf(line) == Block("bulleted_list_item", Drop(Strip(line), 2))

C5_HeadingTextStripped ==
    Formatted =>
        \A i \in 1..Len(Paras) :
            IsHeadingPara(Paras[i]) =>
                /\ Len(GroupOf(i)) = 1
                /\ LET text == GroupOf(i)[1].text
                   IN  /\ text = StripSet(Paras[i], Whitespace \cup {"#"})
                       /\ text # <<>> =>
                            /\ text[1] \notin Whitespace \cup {"#"}
                            /\ text[Len(text)] \notin Whitespace \cup {"#"}

\* the permutations of 1..n
Perms(n) == {f \in [1..n -> 1..n] : \A a, b \in 1..n : a # b => f[a] # f[b]}

RECURSIVE Flatten(_)
Flatten(groups) == IF groups = <<>> THEN <<>> ELSE Head(groups) \o Flatten(Tail(groups))

\* C6: after the timestamp heading the blocks stand in the order of the
\* paragraphs they came from, and formatting the paragraphs in any other
\* order gives the same groups of blocks in that order.
C6_OrderAndPermutation ==
    Formatted =>
        /\ \A j, k \in 1..Len(blocks) : j < k => origin[j] <= origin[k]
        /\ \A f \in Perms(Len(Paras)) :
            FormatNotes(Join([k \in 1..Len(Paras) |-> Paras[f[k]]], <<NL, NL>>), calledAt)
                = <<blocks[1]>> \o Flatten([k \in 1..Len(Paras) |-> GroupOf(f[k])])

BlockTypes == {"heading_0", "heading_1", "heading_2", "heading_3",
               "bulleted_list_item", "paragraph"}

\* C7: the formatter returns a block sequence for every text, and for a text
\* that is empty after trimming exactly one block, the timestamp heading.
IsBlockSeq(bs) ==
    /\ DOMAIN bs = 1..Len(bs)
    /\ Len(bs) >= 1
    /\ \A k \in 1..Len(bs) :
        /\ bs[k].type \in BlockTypes
        /\ DOMAIN bs[k].text = 1..Len(bs[k].text)

C7_TotalAndEmptyGivesTimestampOnly ==
    /\ pc = "format" => IsBlockSeq(FormatNotes(notes, clock))
    /\ Formatted =>
        /\ IsBlockSeq(blocks)
        /\ IsBlankPara(notes) =>
            /\ Len(blocks) = 1
            /\ origin = <<0>>
            /\ blocks[1].type = "heading_3"

\* the formatter ran on a text of nothing but whitespace
C7_Witness == Formatted /\ Len(notes) >= 2 /\ IsBlankPara(notes) /\ Len(blocks) = 1

\* C8: two calls of the formatter on the same note text return the same
\* blocks, whenever they run.
C8_SameTextSameBlocks ==
    \A i, j \in 1..Len(calls) : calls[i] = calls[j]

-----------------------------------------------------------------------------
(* create_page_with_notes and quick_note *)

Patches == {k \in 1..Len(sent) : sent[k].method = "PATCH"}

\* C9: the PATCH is sent at most once and only after the POST returned 200;
\* any other POST status gives an error result and no PATCH; the result has
\* success=True exactly when both returned 200; nothing is sent after a
\* failed PATCH.
C9_PatchOnlyAfterPost200 ==
    /\ Cardinality(Patches) <= 1
    /\ Len(sent) <= 2
    /\ \A k \in Patches :
        /\ k = 2
        /\ sent[1].method = "POST"
        /\ Len(replies) >= 1
        /\ replies[1].status = StatusOK
        /\ sent[k].path = replies[1].id
    /\ (Len(replies) >= 1 /\ replies[1].status # StatusOK) =>
        /\ pc = "returned"
        /\ result.kind = "error"
        /\ Patches = {}
    /\ pc = "returned" =>
        /\ result.kind \in {"ok", "error"}
        /\ result.kind = "ok" <=>
            (Len(replies) = 2 /\ replies[1].status = StatusOK /\ replies[2].status = StatusOK)
        /\ result.kind = "ok" => result.success = TRUE
    /\ pc # "returned" => result = NoResult

\* the POST returned 200, the PATCH did not: an error result, two requests
C9_Witness ==
    /\ pc = "returned"
    /\ Len(replies) = 2
    /\ replies[1].status = StatusOK
    /\ replies[2].status # StatusOK
    /\ result.kind = "error"
    /\ Len(sent) = 2

\* the first line of s.strip(): what stands before its first newline
FirstLine(s) ==
    LET t == Strip(s)
        nls == {k \in 1..Len(t) : t[k] = NL}
    IN  IF nls = {} THEN t ELSE SubSeq(t, 1, MinOf(nls) - 1)

\* C10: quick_note's title is the first line of the trimmed content when
\* that has at most 50 characters, its first 50 characters and "..." when it
\* has 51 to 99, and "Quick Note - <timestamp>" only when it has 100 or
\* more; a title from the content has at most 53 characters; the page is
\* created with the tags DAILY and PRODUCTIVITY and the content as notes.
C10_QuickNoteTitle ==
    cmd = "quick" =>
        LET first == FirstLine(content)
        IN  /\ Len(first) <= TitleCut => title = first
            /\ (Len(first) > TitleCut /\ Len(first) < TitleLimit) =>
                title = [k \in 1..(TitleCut + 3) |-> IF k <= TitleCut THEN first[k] ELSE "."]
            /\ Len(first) < TitleLimit => Len(title) <= TitleCut + 3
            /\ Len(first) >= TitleLimit =>
                /\ Len(title) = 13 + 16
                /\ SubSeq(title, 1, 13) = QuickNotePrefix
                /\ IsStampOf(Drop(title, 13), startedAt.hour, startedAt.minute)
            /\ notes = content
            /\ tags = <<"DAILY", "PRODUCTIVITY">>
            /\ sent[1] = [method |-> "POST", path |-> "pages", title |-> title,
                          tags |-> <<"DAILY", "PRODUCTIVITY">>]
            /\ \A k \in Patches : sent[k].children = FormatNotes(content, calledAt)

\* quick_note ran on a first line of 99 characters, cut to 50 and "..."
C10_Witness ==
    /\ cmd = "quick"
    /\ pc = "returned"
    /\ Len(FirstLine(content)) = TitleLimit - 1
    /\ Len(title) = TitleCut + 3
    /\ Len(content) > TitleLimit

====
